---- MODULE Spec2Model ----
(***************************************************************************)
(* Model of src/transformers/models/h3/convert_h3_original_to_pytorch.py   *)
(*                                                                         *)
(* A parameter name is a sequence of tokens: the words the script's        *)
(* patterns are made of ("backbone", "layers", ...), the separator "."     *)
(* and any other word.  Python's `pat in name` is a contiguous-subsequence *)
(* test over these tokens and str.replace rewrites every non-overlapping   *)
(* occurrence from the left.  A mapping (a Python dict) is a sequence of   *)
(* entries [k, v] in insertion order with unique keys.  A tensor is an     *)
(* opaque identity; the model uses the name under which the tensor was     *)
(* stored in the checkpoint file.                                          *)
(***************************************************************************)
EXTENDS Integers, Sequences, FiniteSets, TLC

VARIABLES
    pc,                        \* position in the script / in the called helper
    model_name,                \* --model_name
    pytorch_dump_folder_path,  \* --pytorch_dump_folder_path ("None" or a path)
    push_to_hub,               \* --push_to_hub
    hub_file,                  \* the object torch.load will deserialize
    state_dict,                \* the local variable state_dict
    config,                    \* the local variable config
    l,                         \* the loop variable of the reindexing loop
    error,                     \* the exception that ended the run, or "none"
    loaded,                    \* history: state_dict as it stood at line 101
    calls,                     \* history: the stages executed, in order
    logits_close,              \* what torch.allclose(...) answers for this model
    name,                      \* argument of the helper under test
    result                     \* value returned by the helper under test

vars == <<pc, model_name, pytorch_dump_folder_path, push_to_hub, hub_file,
          state_dict, config, l, error, loaded, calls, logits_close, name, result>>

----------------------------------------------------------------------------
(* Names *)

DOT == "."

RECURSIVE Join(_)
\* "a.b.c" from <<"a","b","c">>
Join(words) ==
    IF Len(words) <= 1 THEN words
    ELSE <<Head(words), DOT>> \o Join(Tail(words))

\* Python: pat in s
Contains(s, pat) ==
    \E i \in 1..(Len(s) - Len(pat) + 1) : SubSeq(s, i, i + Len(pat) - 1) = pat

\* Python: s.startswith(pat)
StartsWith(s, pat) ==
    Len(s) >= Len(pat) /\ SubSeq(s, 1, Len(pat)) = pat

RECURSIVE Replace(_, _, _)
\* Python: s.replace(old, new), old non-empty
Replace(s, old, new) ==
    IF Len(s) < Len(old) THEN s
    ELSE IF SubSeq(s, 1, Len(old)) = old
         THEN new \o Replace(SubSeq(s, Len(old) + 1, Len(s)), old, new)
         ELSE <<Head(s)>> \o Replace(Tail(s), old, new)

BACKBONE            == <<"backbone">>
BACKBONE_EMBEDDINGS == Join(<<"backbone", "embeddings">>)
BACKBONE_LAYERS     == Join(<<"backbone", "layers">>)
BACKBONE_LN_F       == Join(<<"backbone", "ln_f">>)
H3                  == <<"h3">>
H3_BLOCKS           == Join(<<"h3", "blocks">>)
H3_FINAL_LAYERNORM  == Join(<<"h3", "final_layernorm">>)

\* Faulty variant of rename_key: the layer rule rewrites only the word "backbone".
rename_key_layers_partial(n) ==
    LET n1 == IF Contains(n, BACKBONE_EMBEDDINGS) THEN Replace(n, BACKBONE, H3) ELSE n
        n2 == IF Contains(n1, BACKBONE_LAYERS) THEN Replace(n1, BACKBONE_LAYERS, Join(<<"h3", "layers">>)) ELSE n1
        n3 == IF Contains(n2, BACKBONE_LN_F) THEN Replace(n2, BACKBONE_LN_F, H3_FINAL_LAYERNORM) ELSE n2
    IN  n3

rename_key(n) ==
    LET n1 == IF Contains(n, BACKBONE_EMBEDDINGS) THEN Replace(n, BACKBONE, H3) ELSE n
        n2 == IF Contains(n1, BACKBONE_LAYERS) THEN Replace(n1, BACKBONE_LAYERS, H3_BLOCKS) ELSE n1
        n3 == IF Contains(n2, BACKBONE_LN_F) THEN Replace(n2, BACKBONE_LN_F, H3_FINAL_LAYERNORM) ELSE n2
    IN  n3

----------------------------------------------------------------------------
(* Mappings (Python dicts, insertion ordered) *)

Keys(d) == {d[i].k : i \in 1..Len(d)}

Has(d, key) == \E i \in 1..Len(d) : d[i].k = key

Index(d, key) == CHOOSE i \in 1..Len(d) : d[i].k = key

\* d[key], key present
Get(d, key) == d[Index(d, key)].v

\* the mapping left by d.pop(key), key present
Pop(d, key) ==
    LET i == Index(d, key)
    IN  SubSeq(d, 1, i - 1) \o SubSeq(d, i + 1, Len(d))

\* d[key] = val: an existing key keeps its position, a new key goes last
Set(d, key, val) ==
    IF Has(d, key)
    THEN [d EXCEPT ![Index(d, key)] = [k |-> key, v |-> val]]
    ELSE Append(d, [k |-> key, v |-> val])

\* the mapping as a set of (key, tensor) pairs
Items(d) == {<<d[i].k, d[i].v>> : i \in 1..Len(d)}

Range(q) == {q[i] : i \in 1..Len(q)}

UniqueKeys(d) == \A i, j \in 1..Len(d) : d[i].k = d[j].k => i = j

----------------------------------------------------------------------------
(* get_h3_config *)

ModelNames == {"H3-125m", "H3-355m", "H3-1.3b", "H3-2.7b"}

H3Config(hs, nl, nh, idx) ==
    [hidden_size |-> hs, num_hidden_layers |-> nl,
     num_attention_heads |-> nh, attn_layer_idx |-> idx]

\* the outcome of a call: a returned value or a raised exception
Return(val) == [raised |-> "none", value |-> val]
Raise(exc)  == [raised |-> exc]

\* Faulty variant of get_h3_config: an unrecognized name falls back to the smallest model.
get_h3_config_default(mn) ==
    IF mn = "H3-355m" THEN Return(H3Config(1024, 24, 16, <<8, 16>>))
    ELSE IF mn = "H3-1.3b" THEN Return(H3Config(2048, 24, 16, <<8, 16>>))
    ELSE IF mn = "H3-2.7b" THEN Return(H3Config(2560, 32, 20, <<8, 16, 24>>))
    ELSE Return(H3Config(768, 12, 12, <<6>>))

get_h3_config(mn) ==
    IF mn = "H3-125m" THEN Return(H3Config(768, 12, 12, <<6>>))
    ELSE IF mn = "H3-355m" THEN Return(H3Config(1024, 24, 16, <<8, 16>>))
    ELSE IF mn = "H3-1.3b" THEN Return(H3Config(2048, 24, 16, <<8, 16>>))
    ELSE IF mn = "H3-2.7b" THEN Return(H3Config(2560, 32, 20, <<8, 16, 24>>))
    \* no branch assigned hidden_size: line 55 reads an unbound local
    ELSE Raise("UnboundLocalError")

----------------------------------------------------------------------------
(* convert_state_dict *)

RECURSIVE RenameAllUnrenamed(_, _)
\* Faulty variant of RenameAll: the value goes back under the key it was popped from.
RenameAllUnrenamed(keys, d) ==
    IF keys = <<>> THEN d
    ELSE LET key == Head(keys)
         IN  RenameAllUnrenamed(Tail(keys), Set(Pop(d, key), key, Get(d, key)))

RECURSIVE RenameAll(_, _)
\* The loop of lines 75-77 over the snapshot `keys` of the mapping's keys: the
\* keys are handled one after the other, first to last.  The run over a list
\* is the run over its first half, completed (the Len test makes TLC evaluate
\* it there), followed by the run over its second half.
RenameAll(keys, d) ==
    IF keys = <<>> THEN d
    ELSE IF Len(keys) = 1
    THEN LET key == keys[1]
             val == Get(d, key)
         IN  Set(Pop(d, key), rename_key(key), val)
    ELSE LET h == Len(keys) \div 2
             firstHalf == RenameAll(SubSeq(keys, 1, h), d)
         IN  IF Len(firstHalf) >= 0
             THEN RenameAll(SubSeq(keys, h + 1, Len(keys)), firstHalf)
             ELSE firstHalf

\* Faulty variant of convert_state_dict: the value is read without popping its key,
\* so the entries under the old names stay beside the renamed ones.
convert_state_dict_keep(orig_state_dict) ==
    LET renamed == RenameAll([i \in 1..Len(orig_state_dict) |-> orig_state_dict[i].k],
                             orig_state_dict)
    IN  SelectSeq(orig_state_dict, LAMBDA e : ~Has(renamed, e.k)) \o renamed

convert_state_dict(orig_state_dict) ==
    RenameAll([i \in 1..Len(orig_state_dict) |-> orig_state_dict[i].k], orig_state_dict)

----------------------------------------------------------------------------
(* The pure helpers applied to chosen arguments *)

NameWords == {"backbone", DOT, "embeddings", "layers", "ln_f", "x"}

MaxNameLen == 6

Names == UNION {[1..n -> NameWords] : n \in 0..MaxNameLen}

OtherModelNames == {"H3-125M", "h3-355m", "H3-1.3B", "H3-2.7", "H3", ""}

NoFile == <<>>

InitPure ==
    /\ \/ /\ pc = "rename_key"
          /\ name \in Names
          /\ model_name = "H3-125m"
       \/ /\ pc = "get_h3_config"
          /\ name = <<>>
          /\ model_name \in ModelNames \cup OtherModelNames
    /\ result = <<>>
    /\ pytorch_dump_folder_path = "None"
    /\ push_to_hub = FALSE
    /\ hub_file = NoFile
    /\ state_dict = <<>>
    /\ config = Raise("unset")
    /\ l = 0
    /\ error = "none"
    /\ loaded = <<>>
    /\ calls = <<>>
    /\ logits_close = FALSE

CallRenameKey ==
    /\ pc = "rename_key"
    /\ result' = <<rename_key(name)>>
    /\ pc' = "rename_key_again"
    /\ UNCHANGED <<model_name, pytorch_dump_folder_path, push_to_hub, hub_file,
                   state_dict, config, l, error, loaded, calls, logits_close, name>>

\* rename_key applied to the name it returned
CallRenameKeyAgain ==
    /\ pc = "rename_key_again"
    /\ result' = Append(result, rename_key(result[1]))
    /\ pc' = "rename_key_returned"
    /\ UNCHANGED <<model_name, pytorch_dump_folder_path, push_to_hub, hub_file,
                   state_dict, config, l, error, loaded, calls, logits_close, name>>

CallGetH3Config ==
    /\ pc = "get_h3_config"
    /\ result' = <<get_h3_config(model_name)>>
    /\ pc' = "get_h3_config_returned"
    /\ UNCHANGED <<model_name, pytorch_dump_folder_path, push_to_hub, hub_file,
                   state_dict, config, l, error, loaded, calls, logits_close, name>>

NextPure == CallRenameKey \/ CallRenameKeyAgain \/ CallGetH3Config

SpecPure == InitPure /\ [][NextPure]_vars

----------------------------------------------------------------------------
\* C4: rename_key returns a name with none of the three patterns unchanged,
\* applies exactly the one rule of a name that matches exactly one pattern
\* (every "backbone" -> "h3" for the embeddings pattern, "backbone.layers" ->
\* "h3.blocks", "backbone.ln_f" -> "h3.final_layernorm"), and returns an
\* already renamed name unchanged.
C4_RenameKeyPerKey ==
    (pc \in {"rename_key_again", "rename_key_returned"}) =>
        LET e == Contains(name, BACKBONE_EMBEDDINGS)
            y == Contains(name, BACKBONE_LAYERS)
            f == Contains(name, BACKBONE_LN_F)
        IN  /\ (~e /\ ~y /\ ~f) => result[1] = name
            /\ (e /\ ~y /\ ~f) => result[1] = Replace(name, BACKBONE, H3)
            /\ (~e /\ y /\ ~f) => result[1] = Replace(name, BACKBONE_LAYERS, H3_BLOCKS)
            /\ (~e /\ ~y /\ f) => result[1] = Replace(name, BACKBONE_LN_F, H3_FINAL_LAYERNORM)
            /\ pc = "rename_key_returned" => result[2] = result[1]

\* a name matching exactly the layer pattern was rewritten and renamed again
C4_Witness ==
    /\ pc = "rename_key_returned"
    /\ name = Join(<<"backbone", "layers", "x">>)
    /\ result = <<Join(<<"h3", "blocks", "x">>), Join(<<"h3", "blocks", "x">>)>>

\* C6: get_h3_config returns the fixed (hidden_size, num_hidden_layers,
\* num_attention_heads, attn_layer_idx) of each of the four recognized names
\* and raises, returning no config, for every other name.
C6_ConfigTable ==
    pc = "get_h3_config_returned" =>
        /\ model_name = "H3-125m" =>
              result[1] = [raised |-> "none", value |->
                  [hidden_size |-> 768, num_hidden_layers |-> 12,
                   num_attention_heads |-> 12, attn_layer_idx |-> <<6>>]]
        /\ model_name = "H3-355m" =>
              result[1] = [raised |-> "none", value |->
                  [hidden_size |-> 1024, num_hidden_layers |-> 24,
                   num_attention_heads |-> 16, attn_layer_idx |-> <<8, 16>>]]
        /\ model_name = "H3-1.3b" =>
              result[1] = [raised |-> "none", value |->
                  [hidden_size |-> 2048, num_hidden_layers |-> 24,
                   num_attention_heads |-> 16, attn_layer_idx |-> <<8, 16>>]]
        /\ model_name = "H3-2.7b" =>
              result[1] = [raised |-> "none", value |->
                  [hidden_size |-> 2560, num_hidden_layers |-> 32,
                   num_attention_heads |-> 20, attn_layer_idx |-> <<8, 16, 24>>]]
        /\ model_name \notin {"H3-125m", "H3-355m", "H3-1.3b", "H3-2.7b"} =>
              /\ result[1].raised # "none"
              /\ DOMAIN result[1] = {"raised"}

\* the resolver was called with an unrecognized name and raised
C6_Witness ==
    /\ pc = "get_h3_config_returned"
    /\ model_name = "H3-125M"
    /\ result[1].raised = "UnboundLocalError"

----------------------------------------------------------------------------
(* Checkpoint files *)

Tensor(origin) == [tensor |-> origin]

\* f"backbone.layers.{i}.{norm}.{part}"
LayerNorm(i, norm, part) == Join(<<"backbone", "layers", ToString(i), norm, part>>)

LN_0(part) == Join(<<"backbone", "ln_0", part>>)
LN_F(part) == Join(<<"backbone", "ln_f", part>>)
BLOCK_0_NORM1(part) == Join(<<"h3", "blocks", "0", "norm1", part>>)

SENTINEL == LN_0("weight")

Entries(names) == [i \in 1..Len(names) |-> [k |-> names[i], v |-> Tensor(names[i])]]

RECURSIVE LayerNames(_, _)
\* the parameter names of layers i..n-1 in the source naming convention
LayerNames(i, n) ==
    IF i >= n THEN <<>>
    ELSE <<Join(<<"backbone", "layers", ToString(i), "mixer", "weight">>),
           LayerNorm(i, "norm1", "weight"), LayerNorm(i, "norm1", "bias"),
           LayerNorm(i, "norm2", "weight"), LayerNorm(i, "norm2", "bias")>>
         \o LayerNames(i + 1, n)

RECURSIVE NormNames(_, _)
NormNames(i, n) ==
    IF i >= n THEN <<>>
    ELSE <<LayerNorm(i, "norm1", "weight"), LayerNorm(i, "norm1", "bias"),
           LayerNorm(i, "norm2", "weight"), LayerNorm(i, "norm2", "bias")>>
         \o NormNames(i + 1, n)

EMBEDDINGS == Join(<<"backbone", "embeddings", "word_embeddings", "weight">>)
LM_HEAD    == Join(<<"lm_head", "weight">>)

\* Parameter names of a checkpoint with n layers.  layout: "legacy" (leading
\* ln_0, no ln_f), "current" (trailing ln_f, no ln_0), "legacy_no_ln_0_bias"
\* (a legacy file whose ln_0 bias is missing).
SourceNames(n, layout) ==
    <<EMBEDDINGS>>
    \o (IF layout = "legacy" THEN <<LN_0("weight"), LN_0("bias")>>
        ELSE IF layout = "legacy_no_ln_0_bias" THEN <<LN_0("weight")>>
        ELSE <<>>)
    \o LayerNames(0, n)
    \o (IF layout = "current" THEN <<LN_F("weight"), LN_F("bias")>> ELSE <<>>)
    \o <<LM_HEAD>>

Layouts == {"legacy", "current", "legacy_no_ln_0_bias"}

MODEL_PREFIX == <<"model", DOT>>

LIGHTNING_VERSION == <<"pytorch-lightning_version">>
STATE_DICT        == <<"state_dict">>

\* A raw parameter mapping, as the original repository saves it.
PlainFile(n, layout) == Entries(SourceNames(n, layout))

\* A training-framework checkpoint: the parameters sit under "state_dict" with
\* the prefix "model."; beside them, entries without the prefix and one whose
\* name repeats the prefix.
LightningFile(n, layout) ==
    LET params == SourceNames(n, layout)
        nested == [i \in 1..Len(params) |-> MODEL_PREFIX \o params[i]]
                  \o <<Join(<<"loss_fn", "weight">>),
                       Join(<<"backbone", "ln_0", "weight">>),
                       Join(<<"model", "model", "aux">>)>>
    IN  <<[k |-> <<"epoch">>, v |-> [int |-> 1]],
          [k |-> LIGHTNING_VERSION, v |-> [str |-> "1.x"]],
          [k |-> STATE_DICT, v |-> [dict |-> Entries(nested)]]>>

\* the layer counts checkpoints come with
FileLayerCounts == {get_h3_config(m).value.num_hidden_layers : m \in ModelNames}

\* A training-framework checkpoint saved without its parameters.
LightningFileNoStateDict ==
    <<[k |-> <<"epoch">>, v |-> [int |-> 1]],
      [k |-> LIGHTNING_VERSION, v |-> [str |-> "1.x"]]>>

Files ==
    {PlainFile(n, y) : n \in FileLayerCounts, y \in Layouts}
    \cup {LightningFile(n, y) : n \in FileLayerCounts, y \in Layouts}
    \cup {LightningFileNoStateDict}

----------------------------------------------------------------------------
(* The reindexing statements, lines 104-123 *)

PopTo(reg, key) == [op |-> "pop", reg |-> reg, key |-> key]
SetFrom(key, reg) == [op |-> "set", reg |-> reg, key |-> key]

RECURSIVE Exec(_, _)
\* Runs pop/insert statements in order on st = [d, ln_weight, ln_bias, ok];
\* a pop of an absent key raises KeyError and the run stops there (ok = FALSE).
Exec(stmts, st) ==
    IF stmts = <<>> \/ ~st.ok THEN st
    ELSE LET s == Head(stmts)
         IN  IF s.op = "pop"
             THEN IF Has(st.d, s.key)
                  THEN Exec(Tail(stmts),
                            [[st EXCEPT ![s.reg] = Get(st.d, s.key)]
                                 EXCEPT !.d = Pop(st.d, s.key)])
                  ELSE [st EXCEPT !.ok = FALSE]
             ELSE Exec(Tail(stmts), [st EXCEPT !.d = Set(st.d, s.key, st[s.reg])])

Start(d) == [d |-> d, ln_weight |-> Tensor(<<>>), ln_bias |-> Tensor(<<>>), ok |-> TRUE]

\* lines 106-109
PromoteLastNorm2(n_layers) ==
    <<PopTo("ln_weight", LayerNorm(n_layers - 1, "norm2", "weight")),
      PopTo("ln_bias", LayerNorm(n_layers - 1, "norm2", "bias")),
      SetFrom(LN_F("weight"), "ln_weight"),
      SetFrom(LN_F("bias"), "ln_bias")>>

\* Faulty variant of ShiftLayer: the predecessor's norm2 is moved before norm1 is.
ShiftLayerSwapped(i) ==
    (IF i > 0
     THEN <<PopTo("ln_weight", LayerNorm(i - 1, "norm2", "weight")),
            PopTo("ln_bias", LayerNorm(i - 1, "norm2", "bias")),
            SetFrom(LayerNorm(i, "norm1", "weight"), "ln_weight"),
            SetFrom(LayerNorm(i, "norm1", "bias"), "ln_bias")>>
     ELSE <<>>)
    \o <<PopTo("ln_weight", LayerNorm(i, "norm1", "weight")),
         PopTo("ln_bias", LayerNorm(i, "norm1", "bias")),
         SetFrom(LayerNorm(i, "norm2", "weight"), "ln_weight"),
         SetFrom(LayerNorm(i, "norm2", "bias"), "ln_bias")>>

\* lines 111-119, one iteration of the loop
ShiftLayer(i) ==
    <<PopTo("ln_weight", LayerNorm(i, "norm1", "weight")),
      PopTo("ln_bias", LayerNorm(i, "norm1", "bias")),
      SetFrom(LayerNorm(i, "norm2", "weight"), "ln_weight"),
      SetFrom(LayerNorm(i, "norm2", "bias"), "ln_bias")>>
    \o (IF i > 0
        THEN <<PopTo("ln_weight", LayerNorm(i - 1, "norm2", "weight")),
               PopTo("ln_bias", LayerNorm(i - 1, "norm2", "bias")),
               SetFrom(LayerNorm(i, "norm1", "weight"), "ln_weight"),
               SetFrom(LayerNorm(i, "norm1", "bias"), "ln_bias")>>
        ELSE <<>>)

\* Faulty variant of SeedFirstNorm1: the sentinel is re-inserted as layer 0's norm2.
SeedFirstNorm1AsNorm2 ==
    <<PopTo("ln_weight", LN_0("weight")),
      PopTo("ln_bias", LN_0("bias")),
      SetFrom(LayerNorm(0, "norm2", "weight"), "ln_weight"),
      SetFrom(LayerNorm(0, "norm2", "bias"), "ln_bias")>>

\* lines 120-123
SeedFirstNorm1 ==
    <<PopTo("ln_weight", LN_0("weight")),
      PopTo("ln_bias", LN_0("bias")),
      SetFrom(BLOCK_0_NORM1("weight"), "ln_weight"),
      SetFrom(BLOCK_0_NORM1("bias"), "ln_bias")>>

----------------------------------------------------------------------------
(* convert_h3_checkpoint_to_pytorch, one action per statement group *)

Fail(exc) ==
    /\ pc' = "failed"
    /\ error' = exc

\* lines 84-96, the two table lookups that build hf_hub_download's arguments
Lookup ==
    /\ pc = "lookup"
    /\ IF model_name \in ModelNames
       THEN pc' = "hf_hub_download" /\ error' = error
       ELSE Fail("KeyError")
    /\ UNCHANGED <<model_name, pytorch_dump_folder_path, push_to_hub, hub_file,
                   state_dict, config, l, loaded, calls, logits_close, name, result>>

\* line 96: the retrieval succeeds or raises
Download ==
    /\ pc = "hf_hub_download"
    /\ calls' = Append(calls, "hf_hub_download")
    /\ \/ pc' = "torch.load" /\ error' = error
       \/ Fail("RetrievalError")
    /\ UNCHANGED <<model_name, pytorch_dump_folder_path, push_to_hub, hub_file,
                   state_dict, config, l, loaded, logits_close, name, result>>

\* line 97
TorchLoad ==
    /\ pc = "torch.load"
    /\ calls' = Append(calls, "torch.load")
    /\ state_dict' = hub_file
    /\ pc' = "unwrap"
    /\ UNCHANGED <<model_name, pytorch_dump_folder_path, push_to_hub, hub_file,
                   config, l, error, loaded, logits_close, name, result>>

\* Faulty variant of Unprefixed: the startswith test is missing, every name loses
\* as many leading tokens as the prefix has.
UnprefixedAll(nested) ==
    [i \in 1..Len(nested) |->
        [k |-> SubSeq(nested[i].k, Len(MODEL_PREFIX) + 1, Len(nested[i].k)),
         v |-> nested[i].v]]

\* the comprehension of line 99 over the nested mapping
Unprefixed(nested) ==
    LET kept == SelectSeq(nested, LAMBDA e : StartsWith(e.k, MODEL_PREFIX))
    IN  [i \in 1..Len(kept) |->
            [k |-> SubSeq(kept[i].k, Len(MODEL_PREFIX) + 1, Len(kept[i].k)),
             v |-> kept[i].v]]

\* lines 98-99
Unwrap ==
    /\ pc = "unwrap"
    /\ IF Has(state_dict, LIGHTNING_VERSION)
       THEN /\ calls' = Append(calls, "unwrap")
            /\ IF Has(state_dict, STATE_DICT)
               THEN /\ state_dict' = Unprefixed(Get(state_dict, STATE_DICT).dict)
                    /\ loaded' = state_dict'
                    /\ pc' = "get_h3_config" /\ error' = error
               ELSE Fail("KeyError") /\ UNCHANGED <<state_dict, loaded>>
       ELSE /\ loaded' = state_dict
            /\ pc' = "get_h3_config"
            /\ UNCHANGED <<state_dict, calls, error>>
    /\ UNCHANGED <<model_name, pytorch_dump_folder_path, push_to_hub, hub_file,
                   config, l, logits_close, name, result>>

\* line 101
GetConfig ==
    /\ pc = "get_h3_config"
    /\ calls' = Append(calls, "get_h3_config")
    /\ LET r == get_h3_config(model_name)
       IN  IF r.raised = "none"
           THEN config' = r.value /\ pc' = "reindex" /\ error' = error
           ELSE Fail(r.raised) /\ config' = config
    /\ UNCHANGED <<model_name, pytorch_dump_folder_path, push_to_hub, hub_file,
                   state_dict, l, loaded, logits_close, name, result>>

\* a group of reindexing statements run on state_dict; next is where the
\* script goes when none of them raises
RunReindex(stmts, next, nextl) ==
    LET st == Exec(stmts, Start(state_dict))
    IN  /\ state_dict' = st.d
        /\ IF st.ok
           THEN pc' = next /\ l' = nextl /\ error' = error
           ELSE Fail("KeyError") /\ l' = l

\* Faulty variant of SkipReindex: lines 105-109 sit outside the sentinel test.
SkipReindexPromoting ==
    /\ pc = "reindex"
    /\ ~Has(state_dict, SENTINEL)
    /\ RunReindex(PromoteLastNorm2(config.num_hidden_layers), "convert_state_dict", l)
    /\ UNCHANGED <<model_name, pytorch_dump_folder_path, push_to_hub, hub_file,
                   config, loaded, calls, logits_close, name, result>>

\* line 104, the sentinel is absent: lines 105-123 are skipped
SkipReindex ==
    /\ pc = "reindex"
    /\ ~Has(state_dict, SENTINEL)
    /\ pc' = "convert_state_dict"
    /\ UNCHANGED <<model_name, pytorch_dump_folder_path, push_to_hub, hub_file,
                   state_dict, config, l, error, loaded, calls, logits_close,
                   name, result>>

\* lines 104-109, the sentinel is present
ReindexLnF ==
    /\ pc = "reindex"
    /\ Has(state_dict, SENTINEL)
    /\ calls' = Append(calls, "reindex")
    /\ LET n_layers == config.num_hidden_layers
       IN  RunReindex(PromoteLastNorm2(n_layers), "reindex_loop", n_layers - 1)
    /\ UNCHANGED <<model_name, pytorch_dump_folder_path, push_to_hub, hub_file,
                   config, loaded, logits_close, name, result>>

\* lines 110-119, the iteration for l; reversed(range(n_layers)) ends after l = 0
ReindexLayer ==
    /\ pc = "reindex_loop"
    /\ RunReindex(ShiftLayer(l), IF l > 0 THEN "reindex_loop" ELSE "reindex_ln_0",
                  IF l > 0 THEN l - 1 ELSE l)
    /\ UNCHANGED <<model_name, pytorch_dump_folder_path, push_to_hub, hub_file,
                   config, loaded, calls, logits_close, name, result>>

\* lines 120-123
ReindexLn0 ==
    /\ pc = "reindex_ln_0"
    /\ RunReindex(SeedFirstNorm1, "convert_state_dict", l)
    /\ UNCHANGED <<model_name, pytorch_dump_folder_path, push_to_hub, hub_file,
                   config, loaded, calls, logits_close, name, result>>

\* line 125
Convert ==
    /\ pc = "convert_state_dict"
    /\ calls' = Append(calls, "convert_state_dict")
    /\ state_dict' = convert_state_dict(state_dict)
    /\ pc' = "load_state_dict"
    /\ UNCHANGED <<model_name, pytorch_dump_folder_path, push_to_hub, hub_file,
                   config, l, error, loaded, logits_close, name, result>>

\* lines 128-130: the strict load accepts the mapping or raises
LoadStateDict ==
    /\ pc = "load_state_dict"
    /\ calls' = Append(calls, "load_state_dict")
    /\ \/ pc' = "forward" /\ error' = error
       \/ Fail("RuntimeError")
    /\ UNCHANGED <<model_name, pytorch_dump_folder_path, push_to_hub, hub_file,
                   state_dict, config, l, loaded, logits_close, name, result>>

\* lines 133-141: the forward pass; logits_close is whether its scores are
\* within tolerance of the reference slice
Forward ==
    /\ pc = "forward"
    /\ calls' = Append(calls, "forward")
    /\ logits_close' \in BOOLEAN
    /\ pc' = "verify"
    /\ UNCHANGED <<model_name, pytorch_dump_folder_path, push_to_hub, hub_file,
                   state_dict, config, l, error, loaded, name, result>>

\* Faulty variant of Verify: the assertion is made for every model size.
VerifyEverySize ==
    /\ pc = "verify"
    /\ calls' = Append(calls, "verify")
    /\ IF logits_close
       THEN pc' = "generate" /\ error' = error
       ELSE Fail("AssertionError")
    /\ UNCHANGED <<model_name, pytorch_dump_folder_path, push_to_hub, hub_file,
                   state_dict, config, l, loaded, logits_close, name, result>>

\* Faulty variant of Verify: a mismatch is reported and the run goes on.
VerifyReportOnly ==
    /\ pc = "verify"
    /\ calls' = Append(calls, "verify")
    /\ pc' = "generate"
    /\ error' = IF model_name \in {"H3-125m", "H3-355m"} /\ ~logits_close
                THEN "AssertionError" ELSE error
    /\ UNCHANGED <<model_name, pytorch_dump_folder_path, push_to_hub, hub_file,
                   state_dict, config, l, loaded, logits_close, name, result>>

\* lines 142-147
Verify ==
    /\ pc = "verify"
    /\ calls' = Append(calls, "verify")
    /\ IF model_name \in {"H3-125m", "H3-355m"}
       THEN IF logits_close
            THEN pc' = "generate" /\ error' = error
            ELSE Fail("AssertionError")
       ELSE pc' = "generate" /\ error' = error
    /\ UNCHANGED <<model_name, pytorch_dump_folder_path, push_to_hub, hub_file,
                   state_dict, config, l, loaded, logits_close, name, result>>

\* lines 149-157: tokenizer download and generation succeed or raise
Generate ==
    /\ pc = "generate"
    /\ calls' = Append(calls, "generate")
    /\ \/ pc' = "save_pretrained" /\ error' = error
       \/ Fail("GenerationError")
    /\ UNCHANGED <<model_name, pytorch_dump_folder_path, push_to_hub, hub_file,
                   state_dict, config, l, loaded, logits_close, name, result>>

\* lines 159-161
Save ==
    /\ pc = "save_pretrained"
    /\ IF pytorch_dump_folder_path # "None"
       THEN /\ calls' = Append(calls, "save_pretrained")
            /\ \/ pc' = "push_to_hub" /\ error' = error
               \/ Fail("SaveError")
       ELSE pc' = "push_to_hub" /\ UNCHANGED <<calls, error>>
    /\ UNCHANGED <<model_name, pytorch_dump_folder_path, push_to_hub, hub_file,
                   state_dict, config, l, loaded, logits_close, name, result>>

\* lines 163-165
Push ==
    /\ pc = "push_to_hub"
    /\ IF push_to_hub
       THEN /\ calls' = Append(calls, "push_to_hub")
            /\ \/ pc' = "done" /\ error' = error
               \/ Fail("UploadError")
       ELSE pc' = "done" /\ UNCHANGED <<calls, error>>
    /\ UNCHANGED <<model_name, pytorch_dump_folder_path, push_to_hub, hub_file,
                   state_dict, config, l, loaded, logits_close, name, result>>

\* lines 168-183 hand the parsed arguments to convert_h3_checkpoint_to_pytorch;
\* the function itself takes any model_name
Init ==
    /\ pc = "lookup"
    /\ model_name \in ModelNames \cup {"H3-125M", ""}
    /\ pytorch_dump_folder_path \in {"None", "dump"}
    /\ push_to_hub \in BOOLEAN
    /\ hub_file \in Files
    /\ state_dict = <<>>
    /\ config = Raise("unset")
    /\ l = 0
    /\ error = "none"
    /\ loaded = <<>>
    /\ calls = <<>>
    /\ logits_close = FALSE
    /\ name = <<>>
    /\ result = <<>>

Next ==
    \/ Lookup \/ Download \/ TorchLoad \/ Unwrap \/ GetConfig
    \/ SkipReindex \/ ReindexLnF \/ ReindexLayer \/ ReindexLn0 \/ Convert
    \/ LoadStateDict \/ Forward \/ Verify \/ Generate \/ Save \/ Push

Spec == Init /\ [][Next]_vars

----------------------------------------------------------------------------
(* Lines 104-125 alone: the reindexing and renaming of a mapping, for any    *)
(* layer count and a wider choice of mappings                                *)

MaxLayers == 3

MaxEntries == 2

CoreNames ==
    {Join(<<"backbone", "layers", "0", "w">>),
     Join(<<"h3", "blocks", "0", "w">>),
     Join(<<"backbone", "embeddings", "backbone">>),
     Join(<<"backbone", "embeddings", "h3">>),
     Join(<<"lm_head", "weight">>),
     LN_0("weight"),
     LN_0("bias"),
     LN_F("weight"),
     BLOCK_0_NORM1("weight")}

\* every mapping of at most MaxEntries entries with names from CoreNames, in
\* every insertion order
SmallMappings ==
    UNION {{Entries(q) : q \in {f \in [1..n -> CoreNames] :
                                   \A i, j \in 1..n : f[i] = f[j] => i = j}}
           : n \in 0..MaxEntries}

\* exactly norm1/norm2 weight and bias of n layers and the sentinel pair
NormsOnly(n) == Entries(<<LN_0("weight"), LN_0("bias")>> \o NormNames(0, n))

CoreMappings ==
    SmallMappings
    \cup {PlainFile(n, y) : n \in 1..MaxLayers, y \in Layouts}
    \cup {NormsOnly(n) : n \in 1..MaxLayers}

InitCore ==
    /\ pc = "reindex"
    /\ model_name = "H3-125m"
    /\ pytorch_dump_folder_path = "None"
    /\ push_to_hub = FALSE
    /\ hub_file = NoFile
    /\ state_dict \in CoreMappings
    /\ \E n \in 1..MaxLayers : config = H3Config(768, n, 12, <<>>)
    /\ l = 0
    /\ error = "none"
    /\ loaded = state_dict
    /\ calls = <<>>
    /\ logits_close = FALSE
    /\ name = <<>>
    /\ result = <<>>

NextCore == SkipReindex \/ ReindexLnF \/ ReindexLayer \/ ReindexLn0 \/ Convert

SpecCore == InitCore /\ [][NextCore]_vars

----------------------------------------------------------------------------
(* Properties of the reindexing and renaming stages *)

Parts == {"weight", "bias"}

Reindexed == pc = "convert_state_dict" /\ "reindex" \in Range(calls)

\* the sentinel pair and norm1/norm2 weight and bias of layers 0..n-1 are present
LegacyLayout(d, n) ==
    \A p \in Parts :
        /\ Has(d, LN_0(p))
        /\ \A i \in 0..(n - 1) :
              Has(d, LayerNorm(i, "norm1", p)) /\ Has(d, LayerNorm(i, "norm2", p))

\* d[key] is the tensor that the loaded mapping held under `from`
Holds(d, key, from) == Has(d, key) /\ Get(d, key) = Get(loaded, from)

\* C1: after the reindexing of a legacy-layout mapping with L layers, ln_f
\* holds the tensors of layer L-1's norm2, every layer's norm2 those of its own
\* norm1, every layer l > 0's norm1 those of layer l-1's norm2, and layer 0's
\* norm1 (stored as h3.blocks.0.norm1) those of the sentinel ln_0; weight to
\* weight, bias to bias, each the very tensor that was loaded.
C1_ReindexRotation ==
    LET n == config.num_hidden_layers
    IN  (pc \in {"reindex", "reindex_loop", "reindex_ln_0", "convert_state_dict", "failed"}
         /\ Has(loaded, SENTINEL) /\ LegacyLayout(loaded, n)) =>
            /\ pc # "failed"
            /\ Reindexed =>
                  \A p \in Parts :
                      /\ Holds(state_dict, LN_F(p), LayerNorm(n - 1, "norm2", p))
                      /\ \A i \in 0..(n - 1) :
                            Holds(state_dict, LayerNorm(i, "norm2", p),
                                  LayerNorm(i, "norm1", p))
                      /\ \A i \in 1..(n - 1) :
                            Holds(state_dict, LayerNorm(i, "norm1", p),
                                  LayerNorm(i - 1, "norm2", p))
                      /\ Holds(state_dict, BLOCK_0_NORM1(p), LN_0(p))

\* a legacy mapping of MaxLayers layers has been reindexed
C1_Witness ==
    /\ Reindexed
    /\ config.num_hidden_layers = MaxLayers
    /\ LegacyLayout(loaded, MaxLayers)
    /\ Get(state_dict, LN_F("bias")) = Tensor(LayerNorm(MaxLayers - 1, "norm2", "bias"))

NormKeys(n) ==
    {LayerNorm(i, nm, p) : i \in 0..(n - 1), nm \in {"norm1", "norm2"}, p \in Parts}

Tensors(d) == {d[i].v : i \in 1..Len(d)}

\* C2: reindexing a mapping that holds exactly norm1/norm2 weight and bias of
\* every layer plus the sentinel pair never raises, keeps the number of entries
\* and the set of tensors at every step (no insert overwrites a live entry, no
\* key is duplicated) and ends with exactly norm1/norm2 weight and bias of
\* every layer (layer 0's norm1 under h3.blocks.0.norm1) plus the ln_f pair.
C2_ReindexBijection ==
    LET n == config.num_hidden_layers
    IN  (pc \in {"reindex", "reindex_loop", "reindex_ln_0", "convert_state_dict", "failed"}
         /\ Keys(loaded) = NormKeys(n) \cup {LN_0(p) : p \in Parts}) =>
            /\ pc # "failed"
            /\ Len(state_dict) = Len(loaded)
            /\ UniqueKeys(state_dict)
            /\ Tensors(state_dict) = Tensors(loaded)
            /\ Cardinality(Tensors(state_dict)) = Len(state_dict)
            /\ pc = "convert_state_dict" =>
                  Keys(state_dict) =
                      ((NormKeys(n) \ {LayerNorm(0, "norm1", p) : p \in Parts})
                       \cup {BLOCK_0_NORM1(p) : p \in Parts}
                       \cup {LN_F(p) : p \in Parts})

\* a mapping of exactly the normalization keys of MaxLayers layers was reindexed
C2_Witness ==
    /\ Reindexed
    /\ config.num_hidden_layers = MaxLayers
    /\ loaded = NormsOnly(MaxLayers)
    /\ Len(state_dict) = 4 * MaxLayers + 2

\* C3: without the sentinel backbone.ln_0.weight the reindexing is skipped:
\* the mapping that reaches convert_state_dict has the same keys bound to the
\* same tensors (in the same order) as the loaded mapping, and nothing raises.
C3_NoSentinelNoReindex ==
    (pc \in {"reindex", "reindex_loop", "reindex_ln_0", "convert_state_dict", "failed"}
     /\ ~Has(loaded, SENTINEL)) =>
        /\ pc \in {"reindex", "convert_state_dict"}
        /\ state_dict = loaded
        /\ "reindex" \notin Range(calls)

\* a mapping with ln_0's bias but not its weight has passed line 104
C3_Witness ==
    /\ pc = "convert_state_dict"
    /\ ~Has(loaded, SENTINEL)
    /\ Has(loaded, LN_0("bias"))
    /\ Len(state_dict) = 2

Renamed(d) == {<<rename_key(d[i].k), d[i].v>> : i \in 1..Len(d)}

\* no two keys of d are renamed to the same name
DistinctRenames(d) ==
    \A i, j \in 1..Len(d) : rename_key(d[i].k) = rename_key(d[j].k) => i = j

\* C5 as stated: for every mapping, in whatever order its keys stand,
\* convert_state_dict leaves each tensor under rename_key of its key and the
\* number of entries unchanged.
C5_AnyMapping ==
    [][pc = "convert_state_dict" =>
          /\ Items(state_dict') = Renamed(state_dict)
          /\ Len(state_dict') = Len(state_dict)]_vars

\* C5, amended: for every mapping whose keys are renamed to pairwise distinct
\* names, in whatever order its keys stand, convert_state_dict leaves each
\* tensor under rename_key of its key and the number of entries unchanged.
C5_DistinctRenames ==
    [][(pc = "convert_state_dict" /\ DistinctRenames(state_dict)) =>
          /\ Items(state_dict') = Renamed(state_dict)
          /\ Len(state_dict') = Len(state_dict)]_vars

\* a two-entry mapping whose second key is in source form went through
\* convert_state_dict and came out with both entries, the key renamed
C5_Witness ==
    /\ pc = "load_state_dict"
    /\ loaded = Entries(<<Join(<<"lm_head", "weight">>),
                          Join(<<"backbone", "layers", "0", "w">>)>>)
    /\ Items(state_dict) = Renamed(loaded)
    /\ Has(state_dict, Join(<<"h3", "blocks", "0", "w">>))

----------------------------------------------------------------------------
(* Properties of the whole run *)

StageOrder ==
    <<"hf_hub_download", "torch.load", "unwrap", "get_h3_config", "reindex",
      "convert_state_dict", "load_state_dict", "forward", "verify", "generate",
      "save_pretrained", "push_to_hub">>

Position(stage) == CHOOSE i \in 1..Len(StageOrder) : StageOrder[i] = stage

Exported == "save_pretrained" \in Range(calls) \/ "push_to_hub" \in Range(calls)

\* C7: the stages run in the order retrieve, load, unwrap, resolve config,
\* reindex, rename, strict load, forward, verify, generate, save, upload; the
\* first exception ends the run (nothing is enabled afterwards); an
\* unrecognized model name fails before any stage has run; a retrieval error,
\* a strict-load mismatch or a verification mismatch ends the run at that stage
\* with neither save nor upload performed.
C7_HaltOnFirstFailure ==
    /\ \A i, j \in 1..Len(calls) :
          i < j => Position(calls[i]) < Position(calls[j])
    /\ (error # "none") <=> (pc = "failed")
    /\ pc = "failed" => ~ENABLED Next
    /\ model_name \notin ModelNames =>
          /\ calls = <<>>
          /\ pc \in {"lookup", "failed"}
          /\ pc = "failed" => error = "KeyError"
    /\ error = "RetrievalError" => calls = <<"hf_hub_download">>
    /\ error = "RuntimeError" => calls[Len(calls)] = "load_state_dict"
    /\ error = "AssertionError" => calls[Len(calls)] = "verify"
    /\ error \in {"KeyError", "RetrievalError", "RuntimeError", "AssertionError"}
          => ~Exported

\* the verification failed in a run that was asked to save and to upload
C7_Witness ==
    /\ pc = "failed"
    /\ error = "AssertionError"
    /\ pytorch_dump_folder_path # "None"
    /\ push_to_hub
    /\ ~Exported

\* C8: the verification compares against the reference for H3-125m and
\* H3-355m only (the run goes on exactly when the scores are close); for
\* H3-1.3b and H3-2.7b it compares nothing and cannot fail, whatever the
\* forward pass returned: the run goes on to generation.
C8_VerifyOnlyKnownSizes ==
    [][pc = "verify" =>
          IF model_name \in {"H3-125m", "H3-355m"}
          THEN IF logits_close
               THEN pc' = "generate" /\ error' = "none"
               ELSE pc' = "failed" /\ error' = "AssertionError"
          ELSE pc' = "generate" /\ error' = "none"]_vars

\* a model without reference passed verification with scores that are not close
C8_Witness ==
    /\ pc = "generate"
    /\ model_name = "H3-2.7b"
    /\ ~logits_close
    /\ calls[Len(calls)] = "verify"
    /\ error = "none"

AfterUnwrap ==
    /\ pc \notin {"lookup", "hf_hub_download", "torch.load", "unwrap"}
    /\ pc = "failed" => "get_h3_config" \in Range(calls)

PastSentinelTest ==
    /\ AfterUnwrap
    /\ pc \notin {"get_h3_config", "reindex"}

\* C9: with the marker key pytorch-lightning_version in the deserialized
\* object, the mapping becomes exactly the entries of its nested state_dict
\* whose key starts with "model.", each under its key less that one leading
\* prefix and bound to the same tensor, the others dropped; without the
\* marker the deserialized object is the mapping, unchanged.  The reindexing
\* runs exactly when the sentinel is in the mapping after the unwrapping.
C9_Unwrap ==
    AfterUnwrap =>
        /\ IF Has(hub_file, LIGHTNING_VERSION)
           THEN LET nested == Get(hub_file, STATE_DICT).dict
                    kept == {i \in 1..Len(nested) :
                                /\ Len(nested[i].k) >= 2
                                /\ nested[i].k[1] = "model"
                                /\ nested[i].k[2] = DOT}
                IN  /\ Items(loaded) =
                          {<<Tail(Tail(nested[i].k)), nested[i].v>> : i \in kept}
                    /\ Len(loaded) = Cardinality(kept)
           ELSE loaded = hub_file
        /\ PastSentinelTest =>
              ("reindex" \in Range(calls) <=> Has(loaded, SENTINEL))

\* a wrapped checkpoint was unwrapped: the doubly prefixed name lost one
\* prefix, the unprefixed sentinel was dropped and no reindexing took place
C9_Witness ==
    /\ pc = "convert_state_dict"
    /\ Has(hub_file, LIGHTNING_VERSION)
    /\ Has(loaded, Join(<<"model", "aux">>))
    /\ ~Has(loaded, Join(<<"loss_fn", "weight">>))
    /\ ~Has(loaded, SENTINEL)
    /\ "reindex" \notin Range(calls)

\* d is a legacy-layout mapping of n layers in the source naming convention:
\* the sentinel pair, names under backbone.embeddings, names under
\* backbone.layers.<i> for i < n (norm1/norm2 weight and bias among them), and
\* names outside backbone; "backbone" is the leading word only, and no name
\* is in destination form already (none starts with "h3").
SourceConvention(d, n) ==
    /\ LegacyLayout(d, n)
    /\ \A key \in Keys(d) :
          /\ \/ key \in {LN_0(p) : p \in Parts}
             \/ StartsWith(key, BACKBONE_EMBEDDINGS \o <<DOT>>)
             \/ \E i \in 0..(n - 1) :
                   StartsWith(key, Join(<<"backbone", "layers", ToString(i)>>) \o <<DOT>>)
             \/ ~Contains(key, BACKBONE)
          /\ ~Contains(Tail(key), BACKBONE)
          /\ ~StartsWith(key, H3)

====
